---- MODULE Spec2Model ----
(***************************************************************************)
(* Model of the GitHub MCP server (src/mcp/servers/github/server.py).      *)
(*                                                                         *)
(* The server is a single-threaded loop: read a line from stdin, parse it  *)
(* as JSON, dispatch on its method, run at most two git commands through   *)
(* subprocess.run, print at most one JSON line to stdout.  Texts are       *)
(* modelled as sequences of string tokens, so that f-string concatenation  *)
(* is \o and "begins with" is a prefix test.                               *)
(***************************************************************************)
EXTENDS Naturals, Integers, Sequences, FiniteSets, TLC

\* ------------------------------------------------------------------------
\* Bounds
\* ------------------------------------------------------------------------

\* number of input lines the client writes before closing stdin
MaxLines ==
    2

\* ------------------------------------------------------------------------
\* JSON values of the input alphabet
\* ------------------------------------------------------------------------

\* a key that is not in the JSON object
Absent ==
    "absent"

\* Python's None, the value dict.get returns for an absent key or a JSON null
None ==
    "None"

\* JSON-RPC error codes used by the server
MethodNotFoundCode ==
    -32601

\* the code of the JSONDecodeError branch
ParseErrorCodeConfused ==
    MethodNotFoundCode

ParseErrorCode ==
    -32700

\* the "id" member of a message: absent, JSON null, or one of two tokens
IdValues ==
    {Absent, "null", "id1", "id2"}

\* the "method" member: absent, the four routed methods, one unknown method
MethodValues ==
    {Absent, "initialize", "initialized", "tools/list", "tools/call", "foo"}

\* shape of "params" and of "arguments": absent, a JSON object, or another
\* JSON value (null, array, string, number)
ShapeValues ==
    {Absent, "mapping", "other"}

\* the seven tool names, in the order of the if/elif chain
ToolNames ==
    <<"git_status", "git_branch", "git_commit", "git_push", "git_pull",
      "git_log", "git_add">>

ToolNameSet ==
    {ToolNames[i] : i \in 1..Len(ToolNames)}

\* params.name: absent, a registered tool, or an unregistered name
NameValues ==
    {Absent, "nope"} \cup ToolNameSet

\* repo_path: absent, empty string, an existing directory, a missing one
RepoValues ==
    {Absent, "", "/repo", "/missing"}

ActionValues ==
    {Absent, "list", "create", "delete", "checkout", "rename"}

BranchNameValues ==
    {Absent, "", "feat"}

MessageValues ==
    {Absent, "msg"}

\* JSON booleans (as tags) or absent
BoolValues ==
    {Absent, "true", "false"}

BranchValues ==
    {Absent, "main"}

LimitValues ==
    {Absent, "3"}

\* files: absent, [], ["a.txt"], or the JSON string "a.txt" (not an array)
FilesValues ==
    {Absent, "empty", "list", "string"}

\* arguments with every key absent
NoArgs ==
    [repo_path |-> Absent, action |-> Absent, branch_name |-> Absent,
     message |-> Absent, add_all |-> Absent, branch |-> Absent,
     force |-> Absent, limit |-> Absent, files |-> Absent]

\* the argument objects tried for each tool: every combination of the keys
\* that the tool's handler reads
ArgsFor(tool) ==
    CASE tool = "git_status" ->
           {[NoArgs EXCEPT !.repo_path = r] : r \in RepoValues}
      [] tool = "git_branch" ->
           {[NoArgs EXCEPT !.repo_path = r, !.action = a, !.branch_name = b] :
              r \in RepoValues, a \in ActionValues, b \in BranchNameValues}
      [] tool = "git_commit" ->
           {[NoArgs EXCEPT !.repo_path = r, !.message = m, !.add_all = x] :
              r \in RepoValues, m \in MessageValues, x \in BoolValues}
      [] tool = "git_push" ->
           {[NoArgs EXCEPT !.repo_path = r, !.branch = b, !.force = f] :
              r \in RepoValues, b \in BranchValues, f \in {Absent, "true"}}
      [] tool = "git_pull" ->
           {[NoArgs EXCEPT !.repo_path = r, !.branch = b] :
              r \in RepoValues, b \in BranchValues}
      [] tool = "git_log" ->
           {[NoArgs EXCEPT !.repo_path = r, !.limit = l] :
              r \in RepoValues, l \in LimitValues}
      [] tool = "git_add" ->
           {[NoArgs EXCEPT !.repo_path = r, !.files = f] :
              r \in RepoValues, f \in FilesValues}
      [] OTHER -> {NoArgs}

\* a line of input.  kind: "garbage" is not JSON, "nonobject" is JSON but
\* not an object, "object" is a JSON object with the members below
BlankLine ==
    [kind |-> "garbage", method |-> Absent, id |-> Absent, params |-> Absent,
     name |-> Absent, arguments |-> Absent, args |-> NoArgs]

ObjectLines ==
    {[BlankLine EXCEPT !.kind = "object", !.method = m, !.id = i, !.params = p] :
        m \in MethodValues, i \in IdValues, p \in {Absent, "other"}}
    \cup
    {[BlankLine EXCEPT !.kind = "object", !.method = m, !.id = i,
                       !.params = "mapping", !.name = n, !.arguments = s] :
        m \in MethodValues \ {"tools/call"}, i \in IdValues,
        n \in {Absent, "git_status"}, s \in {Absent}}
    \cup
    {[BlankLine EXCEPT !.kind = "object", !.method = "tools/call", !.id = i,
                       !.params = "mapping", !.name = n, !.arguments = s] :
        i \in IdValues, n \in NameValues, s \in {Absent, "other"}}
    \cup
    UNION {
      {[BlankLine EXCEPT !.kind = "object", !.method = "tools/call", !.id = i,
                         !.params = "mapping", !.name = n,
                         !.arguments = "mapping", !.args = a] :
          i \in IdValues, a \in ArgsFor(n)} : n \in NameValues}

Lines ==
    {BlankLine, [BlankLine EXCEPT !.kind = "nonobject"]} \cup ObjectLines

\* ------------------------------------------------------------------------
\* Python helpers
\* ------------------------------------------------------------------------

\* dict.get(key): None when the key is absent or holds JSON null
Get(v) ==
    IF v \in {Absent, "null"} THEN None ELSE v

\* truth value of a Python object: None, "", False and [] are false
IsNotNone(v) ==
    v \notin {Absent, None, "null"}

Truthy(v) ==
    v \notin {Absent, None, "null", "", "false", "empty"}

\* str(v) inside an f-string
Str(v) ==
    IF v \in {Absent, "null"} THEN None ELSE v

\* s begins with prefix p
StartsWith(s, p) ==
    Len(s) >= Len(p) /\ SubSeq(s, 1, Len(p)) = p

\* s contains p as a contiguous part
Contains(s, p) ==
    \E i \in 0..(Len(s) - Len(p)) : SubSeq(s, i + 1, i + Len(p)) = p

\* ------------------------------------------------------------------------
\* Responses
\* ------------------------------------------------------------------------

\* the JSON object printed on stdout; id = Absent when it has no "id" member,
\* shape tells which of "result" and "error" it has
BlankResponse ==
    [shape |-> "result", id |-> Absent, code |-> 0, message |-> <<>>,
     payload |-> "none", text |-> <<>>, tools |-> <<>>]

\* request.get("id")
RequestId(line) ==
    Get(line.id)

\* the "id" member added by `if request_id is not None`
ResponseId(request_id) ==
    IF request_id # None THEN request_id ELSE Absent

_send_response_without_id(result, request_id) ==
    [result EXCEPT !.shape = "result", !.id = Absent]

_send_response(result, request_id) ==
    [result EXCEPT !.shape = "result", !.id = ResponseId(request_id)]

_send_error_always_id(code, message, request_id) ==
    [BlankResponse EXCEPT !.shape = "error", !.code = code,
                          !.message = message, !.id = request_id]

_send_error(code, message, request_id) ==
    [BlankResponse EXCEPT !.shape = "error", !.code = code,
                          !.message = message, !.id = ResponseId(request_id)]

\* handle_initialize's result object
InitializeResult ==
    [BlankResponse EXCEPT !.payload = "handshake"]

\* the registry printed by handle_tools_list: name and schema "required"
ToolDescriptorsBranchNameRequired ==
    << [name |-> "git_status", required |-> {"repo_path"}],
       [name |-> "git_branch",
        required |-> {"repo_path", "action", "branch_name"}],
       [name |-> "git_commit", required |-> {"repo_path", "message"}],
       [name |-> "git_push",   required |-> {"repo_path"}],
       [name |-> "git_pull",   required |-> {"repo_path"}],
       [name |-> "git_log",    required |-> {"repo_path"}],
       [name |-> "git_add",    required |-> {"repo_path", "files"}] >>

ToolDescriptors ==
    << [name |-> "git_status", required |-> {"repo_path"}],
       [name |-> "git_branch", required |-> {"repo_path", "action"}],
       [name |-> "git_commit", required |-> {"repo_path", "message"}],
       [name |-> "git_push",   required |-> {"repo_path"}],
       [name |-> "git_pull",   required |-> {"repo_path"}],
       [name |-> "git_log",    required |-> {"repo_path"}],
       [name |-> "git_add",    required |-> {"repo_path", "files"}] >>

ToolsListResultEmpty ==
    [BlankResponse EXCEPT !.payload = "tools"]

ToolsListResult ==
    [BlankResponse EXCEPT !.payload = "tools", !.tools = ToolDescriptors]

\* {"content": [{"type": "text", "text": text}]}
ContentResult(text) ==
    [BlankResponse EXCEPT !.payload = "content", !.text = text]

\* ------------------------------------------------------------------------
\* Process invoker
\* ------------------------------------------------------------------------

\* os.path.exists(cwd)
os_path_exists(cwd) ==
    cwd = "/repo"

\* the dict returned by _run_git_command; keys is the set of its keys
BlankResult ==
    [success |-> FALSE, keys |-> {"success"}, error |-> <<>>,
     stdout |-> <<>>, stderr |-> <<>>, returncode |-> 0]

\* the early return for a missing directory
DirectoryMissingResult(cwd) ==
    [BlankResult EXCEPT !.keys = {"success", "error"},
                        !.error = <<"Directory does not exist: ", cwd>>]

\* the except branch: subprocess.run raised e
ExceptionResult(e) ==
    [BlankResult EXCEPT !.keys = {"success", "error"}, !.error = <<e>>]

\* the normal return, after the process exited
CompletedResult(returncode, out, err) ==
    [success |-> (returncode = 0),
     keys |-> {"success", "stdout", "stderr", "returncode"},
     error |-> <<>>, stdout |-> out, stderr |-> err,
     returncode |-> returncode]

\* exit codes, captured streams and launch exceptions of the external command
ReturnCodes ==
    {0, 1}

StreamTexts ==
    {<<>>, <<"text">>}

LaunchErrors ==
    {"[Errno 2] No such file or directory: 'git'"}

\* ------------------------------------------------------------------------
\* Tool handlers.  A handler is a function of its arguments and of the
\* results of the invocations it has made so far (rs); it yields its next
\* step: run a command, return a text, or raise.
\* ------------------------------------------------------------------------

ReturnAsError(text) ==
    [tag |-> "error", text |-> text, cmd |-> <<>>, cwd |-> Absent]

Return(text) ==
    [tag |-> "return", text |-> text, cmd |-> <<>>, cwd |-> Absent]

Run(cmd, cwd) ==
    [tag |-> "run", text |-> <<>>, cmd |-> cmd, cwd |-> cwd]

Raise(e) ==
    [tag |-> "raise", text |-> <<e>>, cmd |-> <<>>, cwd |-> Absent]

\* f"Error: {rest}"
ErrorPrefix ==
    <<"Error", ":", " ">>

\* f"Error adding files: {rest}"
AddErrorPrefix ==
    <<"Error", " adding files", ":", " ">>

\* result.get('error', result.get('stderr', 'Unknown error'))
ErrorText(result) ==
    IF "error" \in result.keys THEN result.error
    ELSE IF "stderr" \in result.keys THEN result.stderr
    ELSE <<"Unknown error">>

\* the else branch of every handler: f"Error: {...}" of a failed invocation
FailureTextNoPrefix(result) ==
    ErrorText(result)

FailureText(result) ==
    ErrorPrefix \o ErrorText(result)

\* a or b, on texts
OrElse(a, b) ==
    IF a # <<>> THEN a ELSE b

_handle_git_status(args, rs) ==
    LET repo_path == Get(args.repo_path) IN
    IF ~Truthy(repo_path) THEN
        Return(ErrorPrefix \o <<"repo_path is required">>)
    ELSE IF Len(rs) = 0 THEN
        Run(<<"git", "status">>, repo_path)
    ELSE IF rs[1].success THEN
        Return(<<"Git status for ", repo_path, ":\n">> \o rs[1].stdout)
    ELSE
        Return(FailureText(rs[1]))

\* the `if not branch_name` tests of the create, delete and checkout branches
BranchNameRequiredAlways(action, branch_name) ==
    ~Truthy(branch_name)

BranchNameRequired(action, branch_name) ==
    action # "list" /\ ~Truthy(branch_name)

_handle_git_branch(args, rs) ==
    LET repo_path == Get(args.repo_path)
        action == Get(args.action)
        branch_name == Get(args.branch_name)
    IN
    IF ~Truthy(repo_path) \/ ~Truthy(action) THEN
        Return(ErrorPrefix \o <<"repo_path and action are required">>)
    ELSE IF action \notin {"list", "create", "delete", "checkout"} THEN
        Return(ErrorPrefix \o <<"Unknown action: ", Str(action)>>)
    ELSE IF BranchNameRequired(action, branch_name) THEN
        Return(ErrorPrefix \o
               <<"branch_name is required for ", action, " action">>)
    ELSE IF Len(rs) = 0 THEN
        CASE action = "list" -> Run(<<"git", "branch", "-a">>, repo_path)
          [] action = "create" -> Run(<<"git", "branch", branch_name>>, repo_path)
          [] action = "delete" ->
               Run(<<"git", "branch", "-d", branch_name>>, repo_path)
          [] action = "checkout" ->
               Run(<<"git", "checkout", branch_name>>, repo_path)
    ELSE IF rs[1].success THEN
        IF action = "checkout" /\ rs[1].stderr # <<>> THEN
            Return(rs[1].stderr)
        ELSE
            Return(OrElse(rs[1].stdout,
                          <<"Successfully performed ", action, " operation">>))
    ELSE
        Return(FailureText(rs[1]))

\* `if not repo_path or not message`
CommitRequiredMissingRepoOnly(repo_path, message) ==
    ~Truthy(repo_path)

CommitRequiredMissing(repo_path, message) ==
    ~Truthy(repo_path) \/ ~Truthy(message)

\* `if not add_result["success"]`
StagingFailedIgnored(add_result) ==
    FALSE

StagingFailed(add_result) ==
    ~add_result.success

\* `if add_all`
AddAllRequestedAlways(add_all) ==
    TRUE

AddAllRequested(add_all) ==
    Truthy(add_all)

\* the part of _handle_git_commit after the staging step
CreateCommit(repo_path, message, rs) ==
    IF Len(rs) = 0 THEN
        Run(<<"git", "commit", "-m", message>>, repo_path)
    ELSE IF rs[1].success THEN
        Return(<<"Commit created successfully:\n">> \o rs[1].stdout)
    ELSE
        Return(FailureText(rs[1]))

_handle_git_commit(args, rs) ==
    LET repo_path == Get(args.repo_path)
        message == Get(args.message)
        add_all == IF args.add_all = Absent THEN "false" ELSE args.add_all
    IN
    IF CommitRequiredMissing(repo_path, message) THEN
        Return(ErrorPrefix \o <<"repo_path and message are required">>)
    ELSE IF AddAllRequested(add_all) THEN
        IF Len(rs) = 0 THEN
            Run(<<"git", "add", "-A">>, repo_path)
        ELSE IF StagingFailed(rs[1]) THEN
            Return(AddErrorPrefix \o ErrorText(rs[1]))
        ELSE
            CreateCommit(repo_path, message, Tail(rs))
    ELSE
        CreateCommit(repo_path, message, rs)

_handle_git_push(args, rs) ==
    LET repo_path == Get(args.repo_path)
        branch == Get(args.branch)
        force == IF args.force = Absent THEN "false" ELSE args.force
        cmd == <<"git", "push">>
               \o (IF Truthy(force) THEN <<"--force">> ELSE <<>>)
               \o (IF Truthy(branch) THEN <<"origin", branch>> ELSE <<>>)
    IN
    IF ~Truthy(repo_path) THEN
        Return(ErrorPrefix \o <<"repo_path is required">>)
    ELSE IF Len(rs) = 0 THEN
        Run(cmd, repo_path)
    ELSE IF rs[1].success THEN
        Return(OrElse(rs[1].stdout,
                      OrElse(rs[1].stderr, <<"Push completed successfully">>)))
    ELSE
        Return(FailureText(rs[1]))

_handle_git_pull(args, rs) ==
    LET repo_path == Get(args.repo_path)
        branch == Get(args.branch)
        cmd == <<"git", "pull">>
               \o (IF Truthy(branch) THEN <<"origin", branch>> ELSE <<>>)
    IN
    IF ~Truthy(repo_path) THEN
        Return(ErrorPrefix \o <<"repo_path is required">>)
    ELSE IF Len(rs) = 0 THEN
        Run(cmd, repo_path)
    ELSE IF rs[1].success THEN
        Return(<<"Pull completed successfully:\n">> \o rs[1].stdout)
    ELSE
        Return(FailureText(rs[1]))

_handle_git_log(args, rs) ==
    LET repo_path == Get(args.repo_path)
        limit == IF args.limit = Absent THEN "10" ELSE Str(args.limit)
    IN
    IF ~Truthy(repo_path) THEN
        Return(ErrorPrefix \o <<"repo_path is required">>)
    ELSE IF Len(rs) = 0 THEN
        Run(<<"git", "log", "-", limit, "--oneline", "--decorate", "--graph">>,
            repo_path)
    ELSE IF rs[1].success THEN
        Return(<<"Git log (last ", limit, " commits):\n">> \o rs[1].stdout)
    ELSE
        Return(FailureText(rs[1]))

\* the list named by a files value that is a list
FilesList(files) ==
    IF files = "list" THEN <<"a.txt">> ELSE <<>>

_handle_git_add(args, rs) ==
    LET repo_path == Get(args.repo_path)
        files == IF args.files = Absent THEN "empty" ELSE args.files
    IN
    IF ~Truthy(repo_path) \/ ~Truthy(files) THEN
        Return(ErrorPrefix \o <<"repo_path and files are required">>)
    ELSE IF files = "string" THEN
        \* ["git", "add"] + files with files a str
        Raise("can only concatenate list (not \"str\") to list")
    ELSE IF Len(rs) = 0 THEN
        Run(<<"git", "add">> \o FilesList(files), repo_path)
    ELSE IF rs[1].success THEN
        Return(<<"Files staged successfully: ">> \o FilesList(files))
    ELSE
        Return(FailureText(rs[1]))

\* ------------------------------------------------------------------------
\* Dispatch of tools/call
\* ------------------------------------------------------------------------

\* the branch that ends in _send_error
Fail(message) ==
    [tag |-> "error", text |-> message, cmd |-> <<>>, cwd |-> Absent]

\* the else branch of the tool chain
UnknownToolAsResult(tool_name) ==
    Return(<<"Unknown tool: ", Str(tool_name)>>)

UnknownTool(tool_name) ==
    Fail(<<"Unknown tool: ", Str(tool_name)>>)

\* the handler chosen by the if/elif chain
ToolHandler(tool_name, arguments, rs) ==
    CASE tool_name = "git_status" -> _handle_git_status(arguments, rs)
      [] tool_name = "git_branch" -> _handle_git_branch(arguments, rs)
      [] tool_name = "git_commit" -> _handle_git_commit(arguments, rs)
      [] tool_name = "git_push" -> _handle_git_push(arguments, rs)
      [] tool_name = "git_pull" -> _handle_git_pull(arguments, rs)
      [] tool_name = "git_log" -> _handle_git_log(arguments, rs)
      [] tool_name = "git_add" -> _handle_git_add(arguments, rs)

\* the next step of handle_tools_call for a line, given the results of the
\* invocations made so far
handle_tools_call(line, rs) ==
    IF line.params = "other" THEN
        \* params.get on a value that is not a dict
        Raise("object has no attribute 'get'")
    ELSE
        LET tool_name == IF line.params = Absent THEN None ELSE Get(line.name)
            arguments == IF line.params = Absent THEN Absent ELSE line.arguments
        IN
        IF tool_name \notin ToolNameSet THEN
            UnknownTool(tool_name)
        ELSE IF arguments = "other" THEN
            \* args.get on a value that is not a dict
            Raise("object has no attribute 'get'")
        ELSE
            ToolHandler(tool_name,
                        IF arguments = Absent THEN NoArgs ELSE line.args, rs)

\* ------------------------------------------------------------------------
\* State
\* ------------------------------------------------------------------------

VARIABLES
    pc,               \* position of the loop: read, parse, invoke, running, done
    lineNo,           \* number of lines read from stdin so far
    cur,              \* the line being handled (the last line read)
    out,              \* the responses printed while handling cur
    stdout,           \* every line printed on stdout: line number, id, shape
    stderr,           \* line numbers of the "Unexpected error" diagnostics
    request_counter,  \* self.request_counter
    calls,            \* _run_git_command calls made while handling cur
    pending,          \* the _run_git_command call in progress
    handler           \* the handle_* method entered for cur, or "none"

vars ==
    <<pc, lineNo, cur, out, stdout, stderr, request_counter, calls, pending,
      handler>>

\* no call in progress
NoCall ==
    [cmd |-> <<>>, cwd |-> Absent]

\* the results of the calls made so far while handling cur
Results(cs) ==
    [i \in 1..Len(cs) |-> cs[i].result]

\* print(json.dumps(response))
EmitTwice(response) ==
    /\ out' = Append(Append(out, response), response)
    /\ stdout' = Append(Append(stdout,
                               [line |-> lineNo, id |-> response.id,
                                shape |-> response.shape]),
                        [line |-> lineNo, id |-> response.id,
                         shape |-> response.shape])

Emit(response) ==
    /\ out' = Append(out, response)
    /\ stdout' = Append(stdout, [line |-> lineNo, id |-> response.id,
                                 shape |-> response.shape])

\* print(f"Unexpected error: ...", file=sys.stderr)
LogUnexpected ==
    stderr' = Append(stderr, lineNo)

Init ==
    /\ pc = "read"
    /\ lineNo = 0
    /\ cur = BlankLine
    /\ out = <<>>
    /\ stdout = <<>>
    /\ stderr = <<>>
    /\ request_counter = 0
    /\ calls = <<>>
    /\ pending = NoCall
    /\ handler = "none"

\* ------------------------------------------------------------------------
\* The loop
\* ------------------------------------------------------------------------

\* line = sys.stdin.readline(), a nonempty line
ReadLineWhileRunning ==
    /\ pc \in {"read", "running"}
    /\ lineNo < MaxLines
    /\ \E l \in Lines : cur' = l
    /\ lineNo' = lineNo + 1
    /\ out' = <<>>
    /\ calls' = <<>>
    /\ pc' = "parse"
    /\ handler' = "none"
    /\ UNCHANGED <<stdout, stderr, request_counter, pending>>

ReadLine ==
    /\ pc = "read"
    /\ lineNo < MaxLines
    /\ \E l \in Lines : cur' = l
    /\ lineNo' = lineNo + 1
    /\ out' = <<>>
    /\ calls' = <<>>
    /\ pc' = "parse"
    /\ handler' = "none"
    /\ UNCHANGED <<stdout, stderr, request_counter, pending>>

\* readline returned "": break
ReadEOFNeverBreaks ==
    /\ pc = "read"
    /\ pc' = "read"
    /\ UNCHANGED <<lineNo, cur, out, stdout, stderr, request_counter, calls,
                   pending, handler>>

ReadEOF ==
    /\ pc = "read"
    /\ pc' = "done"
    /\ UNCHANGED <<lineNo, cur, out, stdout, stderr, request_counter, calls,
                   pending, handler>>

\* json.loads raised JSONDecodeError
ParseError ==
    /\ pc = "parse"
    /\ cur.kind = "garbage"
    /\ Emit(_send_error(ParseErrorCode, <<"Parse error: ", "Expecting value">>,
                        None))
    /\ pc' = "read"
    /\ UNCHANGED <<lineNo, cur, stderr, request_counter, calls, pending,
                   handler>>

\* json.loads returned a value that is not a dict: request.get raises, the
\* loop's `except Exception` logs it
RequestNotObjectCrashes ==
    /\ pc = "parse"
    /\ cur.kind = "nonobject"
    /\ LogUnexpected
    /\ pc' = "done"
    /\ UNCHANGED <<lineNo, cur, out, stdout, request_counter, calls, pending,
                   handler>>

RequestNotObject ==
    /\ pc = "parse"
    /\ cur.kind = "nonobject"
    /\ LogUnexpected
    /\ pc' = "read"
    /\ UNCHANGED <<lineNo, cur, out, stdout, request_counter, calls, pending,
                   handler>>

\* method == "initialize"
HandleInitialize ==
    /\ pc = "parse"
    /\ cur.kind = "object"
    /\ Get(cur.method) = "initialize"
    /\ handler' = "handle_initialize"
    /\ Emit(_send_response(InitializeResult, RequestId(cur)))
    /\ pc' = "read"
    /\ UNCHANGED <<lineNo, cur, stderr, request_counter, calls, pending>>

\* method == "initialized": pass
HandleInitializedAnswers ==
    /\ pc = "parse"
    /\ cur.kind = "object"
    /\ Get(cur.method) = "initialized"
    /\ Emit(_send_response(BlankResponse, RequestId(cur)))
    /\ pc' = "read"
    /\ UNCHANGED <<lineNo, cur, stderr, request_counter, calls, pending,
                   handler>>

HandleInitialized ==
    /\ pc = "parse"
    /\ cur.kind = "object"
    /\ Get(cur.method) = "initialized"
    /\ pc' = "read"
    /\ UNCHANGED <<lineNo, cur, out, stdout, stderr, request_counter, calls,
                   pending, handler>>

\* method == "tools/list"
HandleToolsListAfterHandshake ==
    /\ pc = "parse"
    /\ cur.kind = "object"
    /\ Get(cur.method) = "tools/list"
    /\ handler' = "handle_tools_list"
    /\ IF stdout = <<>>
       THEN Emit(_send_error(MethodNotFoundCode, <<"Server not initialized">>,
                             RequestId(cur)))
       ELSE Emit(_send_response(ToolsListResult, RequestId(cur)))
    /\ pc' = "read"
    /\ UNCHANGED <<lineNo, cur, stderr, request_counter, calls, pending>>

HandleToolsList ==
    /\ pc = "parse"
    /\ cur.kind = "object"
    /\ Get(cur.method) = "tools/list"
    /\ handler' = "handle_tools_list"
    /\ Emit(_send_response(ToolsListResult, RequestId(cur)))
    /\ pc' = "read"
    /\ UNCHANGED <<lineNo, cur, stderr, request_counter, calls, pending>>

\* the guard of the final else branch of the method chain
SendsMethodNotFoundAlways(request_id) ==
    TRUE

SendsMethodNotFound(request_id) ==
    request_id # None

\* any other method
MethodNotFound ==
    /\ pc = "parse"
    /\ cur.kind = "object"
    /\ Get(cur.method) \notin {"initialize", "initialized", "tools/list",
                               "tools/call"}
    /\ IF SendsMethodNotFound(RequestId(cur))
       THEN Emit(_send_error(MethodNotFoundCode,
                             <<"Method not found: ", Str(cur.method)>>,
                             RequestId(cur)))
       ELSE UNCHANGED <<out, stdout>>
    /\ pc' = "read"
    /\ UNCHANGED <<lineNo, cur, stderr, request_counter, calls, pending,
                   handler>>

\* carry handle_tools_call on, after the calls cs, up to its next
\* _run_git_command call or to its end
Advance(cs) ==
    LET step == handle_tools_call(cur, Results(cs)) IN
    /\ calls' = cs
    /\ CASE step.tag = "run" ->
              /\ pending' = [cmd |-> step.cmd, cwd |-> step.cwd]
              /\ pc' = "invoke"
              /\ UNCHANGED <<out, stdout, stderr>>
         [] step.tag = "return" ->
              /\ Emit(_send_response(ContentResult(step.text), RequestId(cur)))
              /\ pending' = NoCall
              /\ pc' = "read"
              /\ UNCHANGED stderr
         [] step.tag = "error" ->
              /\ Emit(_send_error(MethodNotFoundCode, step.text, RequestId(cur)))
              /\ pending' = NoCall
              /\ pc' = "read"
              /\ UNCHANGED stderr
         [] step.tag = "raise" ->
              /\ LogUnexpected
              /\ pending' = NoCall
              /\ pc' = "read"
              /\ UNCHANGED <<out, stdout>>
    /\ UNCHANGED <<lineNo, cur, request_counter>>

\* method == "tools/call"
HandleToolsCall ==
    /\ pc = "parse"
    /\ cur.kind = "object"
    /\ Get(cur.method) = "tools/call"
    /\ handler' = "handle_tools_call"
    /\ Advance(<<>>)

\* the record of a finished _run_git_command call
CallRecord(call, launched, result) ==
    [cmd |-> call.cmd, cwd |-> call.cwd, launched |-> launched,
     result |-> result]

\* the directory test at the head of _run_git_command
DirectoryNotChecked(cwd) ==
    TRUE

DirectoryChecked(cwd) ==
    os_path_exists(cwd)

\* _run_git_command: the directory does not exist
RunGitCommandNoDirectory ==
    /\ pc = "invoke"
    /\ ~DirectoryChecked(pending.cwd)
    /\ UNCHANGED handler
    /\ Advance(Append(calls, CallRecord(pending, FALSE,
                                        DirectoryMissingResult(pending.cwd))))

\* _run_git_command: subprocess.run raised before a process existed
RunGitCommandLaunchFails ==
    /\ pc = "invoke"
    /\ DirectoryChecked(pending.cwd)
    /\ UNCHANGED handler
    /\ \E e \in LaunchErrors :
         Advance(Append(calls, CallRecord(pending, FALSE, ExceptionResult(e))))

\* _run_git_command: subprocess.run started the process and waits for it
SubprocessStart ==
    /\ pc = "invoke"
    /\ DirectoryChecked(pending.cwd)
    /\ pc' = "running"
    /\ UNCHANGED <<lineNo, cur, out, stdout, stderr, request_counter, calls,
                   pending, handler>>

\* the process exited: subprocess.run returns
SubprocessExit ==
    /\ pc = "running"
    /\ UNCHANGED handler
    /\ \E rc \in ReturnCodes, so \in StreamTexts, se \in StreamTexts :
         Advance(Append(calls, CallRecord(pending, TRUE,
                                          CompletedResult(rc, so, se))))

Next ==
    \/ ReadLine
    \/ ReadEOF
    \/ ParseError
    \/ RequestNotObject
    \/ HandleInitialize
    \/ HandleInitialized
    \/ HandleToolsList
    \/ MethodNotFound
    \/ HandleToolsCall
    \/ RunGitCommandNoDirectory
    \/ RunGitCommandLaunchFails
    \/ SubprocessStart
    \/ SubprocessExit

Spec ==
    Init /\ [][Next]_vars

\* the lines of the termination check: one id, no empty-string arguments,
\* two of the three branch actions that take a branch_name
LiveLines ==
    {l \in Lines :
        /\ l.id \in {Absent, "id1"}
        /\ l.args.repo_path # ""
        /\ l.args.branch_name # ""
        /\ l.args.action \notin {"delete", "checkout"}}

\* line = sys.stdin.readline(), a nonempty line among LiveLines
ReadLiveLine ==
    /\ pc = "read"
    /\ lineNo < MaxLines
    /\ \E l \in LiveLines : cur' = l
    /\ lineNo' = lineNo + 1
    /\ out' = <<>>
    /\ calls' = <<>>
    /\ pc' = "parse"
    /\ handler' = "none"
    /\ UNCHANGED <<stdout, stderr, request_counter, pending>>

LiveNext ==
    \/ ReadLiveLine
    \/ ReadEOF
    \/ ParseError
    \/ RequestNotObject
    \/ HandleInitialize
    \/ HandleInitialized
    \/ HandleToolsList
    \/ MethodNotFound
    \/ HandleToolsCall
    \/ RunGitCommandNoDirectory
    \/ RunGitCommandLaunchFails
    \/ SubprocessStart
    \/ SubprocessExit

\* the loop keeps running, the client closes stdin after finitely many
\* lines, and every external command exits
LiveSpec ==
    Init /\ [][LiveNext]_vars /\ WF_vars(LiveNext)

\* ------------------------------------------------------------------------
\* Type invariant
\* ------------------------------------------------------------------------

TypeOK ==
    /\ pc \in {"read", "parse", "invoke", "running", "done"}
    /\ lineNo \in 0..MaxLines
    /\ cur \in Lines
    /\ Len(out) <= 1
    /\ request_counter = 0
    /\ handler \in {"none", "handle_initialize", "handle_tools_list",
                    "handle_tools_call"}

\* ------------------------------------------------------------------------
\* Vocabulary of the properties
\* ------------------------------------------------------------------------

\* the last line read has been handled to the end: out and calls are final
Handled ==
    lineNo > 0 /\ pc \in {"read", "done"}

\* the line carries an id: an "id" member whose value is not JSON null
CarriesId(line) ==
    line.id \notin {Absent, "null"}

\* a message of the shape of section 6 of the specification: params and
\* arguments are JSON objects when present, files is an array when present
ValidShape(line) ==
    /\ line.params # "other"
    /\ line.arguments # "other"
    /\ line.args.files # "string"

\* cur is a parsed tools/call message
IsToolsCall ==
    cur.kind = "object" /\ cur.method = "tools/call"

\* cur is a tools/call whose params.name is one of the seven tools
RegisteredCall ==
    IsToolsCall /\ cur.params = "mapping" /\ cur.name \in ToolNameSet

\* the arguments object the handler sees
EffectiveArgs ==
    IF cur.arguments = "mapping" THEN cur.args ELSE NoArgs

\* the value under an argument key is missing or empty
MissingOrEmpty(args, key) ==
    args[key] \in {Absent, "null", "", "empty"}

\* some argument of the schema's "required" list of cur's tool is missing
RequiredArgumentMissing ==
    \E d \in 1..Len(ToolDescriptors) :
        /\ ToolDescriptors[d].name = cur.name
        /\ \E key \in ToolDescriptors[d].required :
               MissingOrEmpty(EffectiveArgs, key)

\* text begins with the characters "Error:"
BeginsWithError(text) ==
    StartsWith(text, <<"Error", ":">>)

\* the call passes the argument checks of its tool's handler
PassesChecks(tool, args) ==
    /\ ~MissingOrEmpty(args, "repo_path")
    /\ tool = "git_branch" =>
         /\ args.action \in {"list", "create", "delete", "checkout"}
         /\ args.action # "list" => ~MissingOrEmpty(args, "branch_name")
    /\ tool = "git_commit" => ~MissingOrEmpty(args, "message")
    /\ tool = "git_add" => args.files = "list"

\* the first invocation of cur is the failed staging step of git_commit
StagingStepFailed ==
    /\ RegisteredCall
    /\ cur.name = "git_commit"
    /\ EffectiveArgs.add_all = "true"
    /\ Len(calls) >= 1
    /\ ~calls[1].result.success

\* what a failed invocation reports: its error, else its stderr
ReportedError(result) ==
    IF "error" \in result.keys THEN result.error ELSE result.stderr

\* ------------------------------------------------------------------------
\* C1
\* ------------------------------------------------------------------------

\* C1 as stated: every line that parses as a JSON object carrying an id,
\* whatever its method and arguments, gets exactly one response, with the
\* same id.  Refuted: `initialized` with an id is never answered.
C1_AsStated ==
    (Handled /\ cur.kind = "object" /\ CarriesId(cur))
        => (Len(out) = 1 /\ out[1].id = cur.id)

\* C1 amended: every line that parses as a JSON object of valid shape
\* carrying an id, whose method is anything but `initialized`, gets exactly
\* one response, and that response carries the same id.
C1_OneResponseSameId ==
    (/\ Handled
     /\ cur.kind = "object"
     /\ CarriesId(cur)
     /\ ValidShape(cur)
     /\ cur.method # "initialized")
        => (Len(out) = 1 /\ out[1].id = cur.id)

\* a git_commit request with id2 that staged and committed, answered once
C1_Witness ==
    /\ Handled
    /\ cur.method = "tools/call"
    /\ cur.name = "git_commit"
    /\ cur.id = "id2"
    /\ Len(calls) = 2
    /\ Len(out) = 1
    /\ out[1].id = "id2"

\* ------------------------------------------------------------------------
\* C2
\* ------------------------------------------------------------------------

\* C2: a line that parses as a JSON object with no id is never answered,
\* whatever its method.  Refuted by the code: initialize, tools/list and
\* tools/call print a response without id.
C2_NotificationsUnanswered ==
    (Handled /\ cur.kind = "object" /\ cur.id = Absent) => Len(out) = 0

\* ------------------------------------------------------------------------
\* C3
\* ------------------------------------------------------------------------

\* C3: every response printed for a parsed message has the id of that
\* message, and no id member when the message has none (absent or null);
\* for result and error responses alike, at every line of the input.
C3_ResponseIdMatches ==
    cur.kind = "object" =>
        \A i \in 1..Len(out) :
            /\ CarriesId(cur) => out[i].id = cur.id
            /\ ~CarriesId(cur) => out[i].id = Absent

\* an error response with id2, printed for the second line after a response
\* to the first
C3_Witness ==
    /\ Handled
    /\ lineNo = 2
    /\ Len(stdout) = 2
    /\ Len(out) = 1
    /\ out[1].shape = "error"
    /\ out[1].id = "id2"
    /\ cur.id = "id2"

\* ------------------------------------------------------------------------
\* C4
\* ------------------------------------------------------------------------

\* C4: a line that is not JSON gets exactly one error response, code -32700
\* and no id, and neither a handler nor an external command runs for it.
C4_ParseError ==
    cur.kind = "garbage" =>
        /\ handler = "none"
        /\ calls = <<>>
        /\ pc \notin {"invoke", "running"}
        /\ Handled =>
             /\ Len(out) = 1
             /\ out[1].shape = "error"
             /\ out[1].code = -32700
             /\ out[1].id = Absent

\* an unparsable line has been answered
C4_Witness ==
    /\ Handled
    /\ cur.kind = "garbage"
    /\ Len(out) = 1
    /\ out[1].code = -32700

\* ------------------------------------------------------------------------
\* C5
\* ------------------------------------------------------------------------

\* C5: a parsed message whose method is none of the four routed ones gets
\* one error -32601 "Method not found: <method>" with its id when it carries
\* one, and nothing when it carries none.
C5_MethodNotFound ==
    (/\ Handled
     /\ cur.kind = "object"
     /\ cur.method \notin {"initialize", "initialized", "tools/list",
                           "tools/call"})
        => IF CarriesId(cur)
           THEN /\ Len(out) = 1
                /\ out[1].shape = "error"
                /\ out[1].code = -32601
                /\ out[1].message =
                     <<"Method not found: ",
                       IF cur.method = Absent THEN "None" ELSE cur.method>>
                /\ out[1].id = cur.id
           ELSE out = <<>>

\* the unknown method foo, with id1, has been refused
C5_Witness ==
    /\ Handled
    /\ cur.method = "foo"
    /\ cur.id = "id1"
    /\ Len(out) = 1
    /\ out[1].message = <<"Method not found: ", "foo">>

\* ------------------------------------------------------------------------
\* C6
\* ------------------------------------------------------------------------

\* C6: a tools/call whose params.name is not a registered tool (or is
\* missing) gets an error -32601 "Unknown tool: <name>", never a result, and
\* runs no external command.
C6_UnknownTool ==
    (/\ IsToolsCall
     /\ cur.params # "other"
     /\ (cur.params = Absent \/ cur.name \notin ToolNameSet))
        => /\ calls = <<>>
           /\ pc \notin {"invoke", "running"}
           /\ Handled =>
                /\ Len(out) = 1
                /\ out[1].shape = "error"
                /\ out[1].code = -32601
                /\ out[1].message =
                     <<"Unknown tool: ",
                       IF cur.name = Absent THEN "None" ELSE cur.name>>

\* the unregistered tool name nope has been refused
C6_Witness ==
    /\ Handled
    /\ IsToolsCall
    /\ cur.name = "nope"
    /\ Len(out) = 1
    /\ out[1].message = <<"Unknown tool: ", "nope">>

\* ------------------------------------------------------------------------
\* C7
\* ------------------------------------------------------------------------

\* C7: for each tool, a call with a required argument missing or empty
\* invokes no external command, before or after the check, and returns a
\* result whose text begins with "Error:".
C7_RequiredArgumentChecked ==
    (RegisteredCall /\ cur.arguments # "other" /\ RequiredArgumentMissing)
        => /\ calls = <<>>
           /\ pc \notin {"invoke", "running"}
           /\ Handled =>
                /\ Len(out) = 1
                /\ out[1].shape = "result"
                /\ out[1].payload = "content"
                /\ BeginsWithError(out[1].text)

\* git_add with a repository but an empty files list has been refused
C7_Witness ==
    /\ Handled
    /\ RegisteredCall
    /\ cur.name = "git_add"
    /\ cur.args.repo_path = "/repo"
    /\ cur.args.files = "empty"
    /\ Len(out) = 1
    /\ BeginsWithError(out[1].text)

\* ------------------------------------------------------------------------
\* C8
\* ------------------------------------------------------------------------

\* C8: when git_commit is called with add_all and the staging step fails,
\* the commit is never attempted and the response reports the staging error.
C8_StagingFailureStops ==
    StagingStepFailed =>
        /\ Len(calls) = 1
        /\ calls[1].cmd = <<"git", "add", "-A">>
        /\ pc \notin {"invoke", "running"}
        /\ Handled
        /\ Len(out) = 1
        /\ out[1].text = <<"Error", " adding files", ":", " ">>
                         \o ReportedError(calls[1].result)

\* git add -A ran and exited with a nonzero code
C8_Witness ==
    /\ Handled
    /\ StagingStepFailed
    /\ calls[1].launched
    /\ calls[1].result.returncode = 1
    /\ calls[1].result.stderr = <<"text">>

\* ------------------------------------------------------------------------
\* C9
\* ------------------------------------------------------------------------

\* some invocation made for cur failed
SomeInvocationFailed ==
    \E i \in 1..Len(calls) : ~calls[i].result.success

C10_MissingDirectory ==
    (RegisteredCall /\ EffectiveArgs.repo_path = "/missing")
        => /\ pc # "running"
           /\ \A i \in 1..Len(calls) :
                /\ ~calls[i].launched
                /\ ~calls[i].result.success
                /\ "error" \in calls[i].result.keys
                /\ calls[i].result.error =
                     <<"Directory does not exist: ", "/missing">>
           /\ (Handled /\ PassesChecks(cur.name, EffectiveArgs)) =>
                /\ Len(calls) = 1
                /\ Len(out) = 1
                /\ Contains(out[1].text,
                            <<"Directory does not exist: ", "/missing">>)

\* git_log against the missing directory has been answered
C10_Witness ==
    /\ Handled
    /\ RegisteredCall
    /\ cur.name = "git_log"
    /\ cur.args.repo_path = "/missing"
    /\ Len(calls) = 1
    /\ Contains(out[1].text, <<"Directory does not exist: ", "/missing">>)

\* ------------------------------------------------------------------------
\* C11
\* ------------------------------------------------------------------------

\* C11: every response to a tools/call naming a registered tool is a result
\* with one text content item, never an error, whatever the outcome; error
\* responses occur only for parse errors (-32700), unknown methods and
\* unknown tool names (-32601); no response has both result and error.
C11_ToolOutcomeIsResult ==
    \A i \in 1..Len(out) :
        /\ RegisteredCall =>
             /\ out[i].shape = "result"
             /\ out[i].payload = "content"
        /\ out[i].shape = "error" =>
             \/ cur.kind = "garbage" /\ out[i].code = -32700
             \/ /\ cur.kind = "object"
                /\ cur.method \notin {"initialize", "initialized",
                                      "tools/list", "tools/call"}
                /\ out[i].code = -32601
             \/ IsToolsCall /\ ~RegisteredCall /\ out[i].code = -32601
        /\ out[i].shape = "error" =>
             out[i].payload = "none" /\ out[i].text = <<>> /\ out[i].tools = <<>>
        /\ out[i].shape = "result" =>
             out[i].code = 0 /\ out[i].message = <<>>

\* git_pull succeeded and was answered by a result
C11_Witness ==
    /\ Handled
    /\ RegisteredCall
    /\ cur.name = "git_pull"
    /\ Len(calls) = 1
    /\ calls[1].result.success
    /\ Len(out) = 1
    /\ out[1].shape = "result"
    /\ out[1].payload = "content"

\* ------------------------------------------------------------------------
\* C12
\* ------------------------------------------------------------------------

\* a step that logs an unexpected error writes nothing on stdout, changes no
\* server field and leaves the loop ready to read the next line
C12_FaultStep ==
    stderr' # stderr =>
        /\ pc' = "read"
        /\ stdout' = stdout
        /\ out' = out
        /\ lineNo' = lineNo
        /\ request_counter' = request_counter
        /\ pending' = NoCall

\* a line handled after an earlier fault is served by the usual rules
C12_ServedAfterFault ==
    (Handled /\ stderr # <<>> /\ stderr[1] < lineNo) =>
        /\ cur.kind = "garbage" =>
             Len(out) = 1 /\ out[1].code = -32700
        /\ (cur.kind = "object" /\ cur.method \in {"initialize", "tools/list"})
             => Len(out) = 1 /\ out[1].shape = "result"
        /\ (RegisteredCall /\ ValidShape(cur)) =>
             Len(out) = 1 /\ out[1].payload = "content"

\* C12: an unexpected fault raised while handling a line is caught by the
\* loop, reported on stderr only, and does not end the loop: later lines
\* are read and handled as usual.
C12_FaultIsContained ==
    [][C12_FaultStep]_vars /\ []C12_ServedAfterFault

\* the first line raised, the second line, an initialize, was answered
C12_Witness ==
    /\ Handled
    /\ lineNo = 2
    /\ stderr = <<1>>
    /\ cur.method = "initialize"
    /\ Len(out) = 1
    /\ Len(stdout) = 1

\* ------------------------------------------------------------------------
\* C13
\* ------------------------------------------------------------------------

\* a line is read only when the handling of the previous one is over
C13_ReadStep ==
    lineNo' # lineNo =>
        /\ pc = "read"
        /\ pending = NoCall
        /\ lineNo' = lineNo + 1

\* a response is appended to stdout for the line being handled
C13_WriteStep ==
    stdout' # stdout =>
        /\ Len(stdout') = Len(stdout) + 1
        /\ SubSeq(stdout', 1, Len(stdout)) = stdout
        /\ stdout'[Len(stdout')].line = lineNo
        /\ lineNo' = lineNo

\* responses are in the order of their lines, and none is written while an
\* invocation of the current line is pending
C13_InOrder ==
    /\ \A i \in 1..Len(stdout) : stdout[i].line <= lineNo
    /\ \A i \in 1..Len(stdout), j \in 1..Len(stdout) :
         i < j => stdout[i].line < stdout[j].line
    /\ pc \in {"invoke", "running"} => out = <<>>

\* C13: at most one request is in flight: line n+1 is read only after the
\* handling of line n, its invocations included, is over and its response
\* written; responses are in the order of the lines that caused them.
C13_OneInFlight ==
    [][C13_ReadStep /\ C13_WriteStep]_vars /\ []C13_InOrder

\* two lines answered in order, the second after two invocations
C13_Witness ==
    /\ Handled
    /\ lineNo = 2
    /\ Len(stdout) = 2
    /\ stdout[1].line = 1
    /\ stdout[2].line = 2
    /\ Len(calls) = 2

\* ------------------------------------------------------------------------
\* C14
\* ------------------------------------------------------------------------

\* C14: a message with method `initialized` is never answered, with or
\* without id, whatever its params, at any line of the input.
C14_InitializedSilent ==
    (cur.kind = "object" /\ cur.method = "initialized") =>
        /\ out = <<>>
        /\ \A i \in 1..Len(stdout) : stdout[i].line # lineNo

\* `initialized` with an id and params that are not an object, as second
\* line, handled without a response
C14_Witness ==
    /\ Handled
    /\ lineNo = 2
    /\ cur.method = "initialized"
    /\ cur.id = "id1"
    /\ cur.params = "other"
    /\ Len(stdout) = 1
    /\ out = <<>>

\* ------------------------------------------------------------------------
\* C15
\* ------------------------------------------------------------------------

\* C15: every tools/list response lists exactly seven descriptors with
\* pairwise distinct names, in the order git_status, git_branch, git_commit,
\* git_push, git_pull, git_log, git_add.
C15_SevenTools ==
    /\ \A i \in 1..Len(out) :
         out[i].payload = "tools" =>
           /\ Len(out[i].tools) = 7
           /\ [k \in 1..7 |-> out[i].tools[k].name] =
                <<"git_status", "git_branch", "git_commit", "git_push",
                  "git_pull", "git_log", "git_add">>
           /\ \A k \in 1..7, l \in 1..7 :
                k # l => out[i].tools[k].name # out[i].tools[l].name
    /\ (Handled /\ cur.kind = "object" /\ cur.method = "tools/list") =>
         Len(out) = 1 /\ out[1].payload = "tools"

\* a tools/list answered as second line
C15_Witness ==
    /\ Handled
    /\ lineNo = 2
    /\ Len(stdout) = 2
    /\ cur.method = "tools/list"
    /\ Len(out) = 1
    /\ Len(out[1].tools) = 7

\* ------------------------------------------------------------------------
\* C16
\* ------------------------------------------------------------------------

\* the text of the required-argument check of each handler
RequiredMessage(tool) ==
    CASE tool = "git_branch" -> "repo_path and action are required"
      [] tool = "git_commit" -> "repo_path and message are required"
      [] tool = "git_add" -> "repo_path and files are required"
      [] OTHER -> "repo_path is required"

\* C16: for each tool the schema's required list is what the handler's
\* required-argument check tests: a call fails that check exactly when one
\* of the schema-required arguments is missing.
C16_SchemaMatchesCheck ==
    (Handled /\ RegisteredCall /\ cur.arguments # "other") =>
        (RequiredArgumentMissing <=>
            /\ Len(out) = 1
            /\ out[1].text = <<"Error", ":", " ", RequiredMessage(cur.name)>>)

\* git_branch list with both schema-required arguments and no branch_name
\* passed the check and ran its command
C16_Witness ==
    /\ Handled
    /\ RegisteredCall
    /\ cur.name = "git_branch"
    /\ cur.args.repo_path = "/repo"
    /\ cur.args.action = "list"
    /\ cur.args.branch_name = Absent
    /\ ~RequiredArgumentMissing
    /\ Len(calls) = 1

\* ------------------------------------------------------------------------
\* C17
\* ------------------------------------------------------------------------

\* C17: a line that is valid JSON but not a JSON object gets a parse error
\* response, code -32700, without id.  Refuted by the code: request.get
\* raises, the fault is logged and nothing is answered.
C17_NonObjectIsParseError ==
    (Handled /\ cur.kind = "nonobject") =>
        /\ Len(out) = 1
        /\ out[1].shape = "error"
        /\ out[1].code = -32700
        /\ out[1].id = Absent

\* ------------------------------------------------------------------------
\* C18
\* ------------------------------------------------------------------------

\* the text the rule of the claim chooses for a failed invocation
ChosenByRule(result) ==
    IF "error" \in result.keys THEN result.error
    ELSE IF result.stderr # <<>> THEN result.stderr
    ELSE <<"Unknown error">>

\* C18: the text reported for a failed invocation is its error field if
\* present, else the captured stderr, else, when no stderr text was
\* captured, "Unknown error".  Refuted by the code: a process that fails
\* with an empty stderr is reported with an empty text.
C18_ErrorTextRule ==
    (Handled /\ RegisteredCall /\ SomeInvocationFailed) =>
        LET chosen == ChosenByRule(calls[Len(calls)].result) IN
        /\ Len(out) = 1
        /\ \/ out[1].text = <<"Error", ":", " ">> \o chosen
           \/ out[1].text = <<"Error", " adding files", ":", " ">> \o chosen

\* ------------------------------------------------------------------------
\* C19
\* ------------------------------------------------------------------------

\* C19: git_branch with action list runs `git branch -a` and reports its
\* outcome whether or not branch_name is given; with create, delete or
\* checkout and no branch_name it runs nothing and answers exactly
\* "Error: branch_name is required for <action> action".
C19_BranchName ==
    (/\ RegisteredCall
     /\ cur.name = "git_branch"
     /\ ~MissingOrEmpty(EffectiveArgs, "repo_path"))
        => /\ (Handled /\ EffectiveArgs.action = "list") =>
                /\ Len(calls) = 1
                /\ calls[1].cmd = <<"git", "branch", "-a">>
                /\ calls[1].cwd = EffectiveArgs.repo_path
                /\ Len(out) = 1
                /\ out[1].text =
                     IF calls[1].result.success
                     THEN IF calls[1].result.stdout # <<>>
                          THEN calls[1].result.stdout
                          ELSE <<"Successfully performed ", "list",
                                 " operation">>
                     ELSE <<"Error", ":", " ">>
                          \o ReportedError(calls[1].result)
           /\ (/\ EffectiveArgs.action \in {"create", "delete", "checkout"}
               /\ MissingOrEmpty(EffectiveArgs, "branch_name")) =>
                /\ calls = <<>>
                /\ pc \notin {"invoke", "running"}
                /\ Handled =>
                     /\ Len(out) = 1
                     /\ out[1].text =
                          <<"Error", ":", " ", "branch_name is required for ",
                            EffectiveArgs.action, " action">>

\* git_branch list with a branch_name ran `git branch -a`
C19_Witness ==
    /\ Handled
    /\ RegisteredCall
    /\ cur.name = "git_branch"
    /\ cur.args.action = "list"
    /\ cur.args.branch_name = "feat"
    /\ Len(calls) = 1
    /\ calls[1].cmd = <<"git", "branch", "-a">>
    /\ calls[1].launched

\* ------------------------------------------------------------------------
\* C20
\* ------------------------------------------------------------------------

\* C20: a git_commit call with its required arguments makes exactly one
\* invocation, the commit, when add_all is false or absent; with add_all
\* true and a successful staging step it makes exactly two, the staging
\* step being over before the commit starts.
C20_CommitInvocations ==
    (/\ RegisteredCall
     /\ cur.name = "git_commit"
     /\ ~MissingOrEmpty(EffectiveArgs, "repo_path")
     /\ ~MissingOrEmpty(EffectiveArgs, "message"))
        => LET staging == <<"git", "add", "-A">>
               commit == <<"git", "commit", "-m", EffectiveArgs.message>>
               busy == pc \in {"invoke", "running"}
           IN
           /\ EffectiveArgs.add_all # "true" =>
                /\ Len(calls) <= 1
                /\ \A i \in 1..Len(calls) : calls[i].cmd = commit
                /\ busy => calls = <<>> /\ pending.cmd = commit
                /\ Handled => Len(calls) = 1
           /\ EffectiveArgs.add_all = "true" =>
                /\ Len(calls) <= 2
                /\ Len(calls) >= 1 => calls[1].cmd = staging
                /\ Len(calls) = 2 =>
                     calls[1].result.success /\ calls[2].cmd = commit
                /\ (busy /\ calls = <<>>) => pending.cmd = staging
                /\ (busy /\ calls # <<>>) =>
                     /\ Len(calls) = 1
                     /\ calls[1].result.success
                     /\ pending.cmd = commit
                /\ (Handled /\ calls[1].result.success) => Len(calls) = 2

\* a commit without add_all ran one process, the commit
C20_Witness ==
    /\ Handled
    /\ RegisteredCall
    /\ cur.name = "git_commit"
    /\ cur.args.add_all = "false"
    /\ Len(calls) = 1
    /\ calls[1].launched
    /\ calls[1].result.success

\* ------------------------------------------------------------------------
\* C21
\* ------------------------------------------------------------------------

\* the id member of the response to a line
IdFor(line) ==
    IF CarriesId(line) THEN line.id ELSE Absent

\* what is printed for a line, as a function of the line and of the
\* invocations made for it, and of nothing else
ExpectedOut(line, cs) ==
    CASE line.kind = "garbage" ->
           << [BlankResponse EXCEPT !.shape = "error", !.code = -32700,
                 !.message = <<"Parse error: ", "Expecting value">>] >>
      [] line.kind = "nonobject" -> <<>>
      [] line.kind = "object" /\ line.method = "initialize" ->
           << [BlankResponse EXCEPT !.payload = "handshake",
                                    !.id = IdFor(line)] >>
      [] line.kind = "object" /\ line.method = "initialized" -> <<>>
      [] line.kind = "object" /\ line.method = "tools/list" ->
           << [BlankResponse EXCEPT !.payload = "tools",
                                    !.tools = ToolDescriptors,
                                    !.id = IdFor(line)] >>
      [] line.kind = "object" /\ line.method = "tools/call" ->
           LET step == handle_tools_call(line, Results(cs)) IN
           CASE step.tag = "return" ->
                  << [BlankResponse EXCEPT !.payload = "content",
                                           !.text = step.text,
                                           !.id = IdFor(line)] >>
             [] step.tag = "error" ->
                  << [BlankResponse EXCEPT !.shape = "error", !.code = -32601,
                                           !.message = step.text,
                                           !.id = IdFor(line)] >>
             [] OTHER -> <<>>
      [] OTHER ->
           IF CarriesId(line)
           THEN << [BlankResponse EXCEPT !.shape = "error", !.code = -32601,
                      !.message = <<"Method not found: ",
                                    IF line.method = Absent THEN "None"
                                    ELSE line.method>>,
                      !.id = line.id] >>
           ELSE <<>>

\* the response to a handled line is the one its content and its
\* invocations determine, at any position in the input
C21_ResponseOfLine ==
    /\ request_counter = 0
    /\ Handled => out = ExpectedOut(cur, calls)

\* C21: handling a line changes no server field, request_counter included,
\* and the response to a line depends on that line and on the outcomes of
\* its invocations only, not on the lines before it.
C21_Stateless ==
    []C21_ResponseOfLine /\ [][request_counter' = request_counter]_vars

\* tools/list answered as second line, after a result with id1
C21_Witness ==
    /\ Handled
    /\ lineNo = 2
    /\ Len(stdout) = 2
    /\ stdout[1] = [line |-> 1, id |-> "id1", shape |-> "result"]
    /\ cur.method = "tools/list"
    /\ cur.id = "id2"
    /\ out[1].payload = "tools"
    /\ request_counter = 0

\* ------------------------------------------------------------------------
\* C22
\* ------------------------------------------------------------------------

\* the loop ends only by reading end-of-stream, between two lines
C22_EndStep ==
    (pc' = "done" /\ pc # "done") =>
        /\ pc = "read"
        /\ pending = NoCall
        /\ UNCHANGED <<lineNo, cur, out, stdout, stderr, calls>>

\* C22: at end-of-stream the loop ends; when the input is finite and every
\* external command exits, the server ends, after handling every line read,
\* and never because of the content of a line.
C22_Terminates ==
    <>(pc = "done") /\ [][C22_EndStep]_vars

\* the loop ended after two lines, the last one a tools/call that ran
C22_Witness ==
    /\ pc = "done"
    /\ lineNo = 2
    /\ IsToolsCall
    /\ Len(calls) = 1
    /\ calls[1].launched
    /\ Len(out) = 1

\* ------------------------------------------------------------------------
\* C23
\* ------------------------------------------------------------------------

\* C23: for every input line, whatever its content, the server writes at
\* most one line on stdout while handling it.
C23_AtMostOneLine ==
    /\ Len(out) <= 1
    /\ \A n \in 1..MaxLines :
         Cardinality({i \in 1..Len(stdout) : stdout[i].line = n}) <= 1

\* a tools/call notification for an unregistered tool got its one line
C23_Witness ==
    /\ Handled
    /\ IsToolsCall
    /\ cur.name = "nope"
    /\ cur.id = Absent
    /\ Len(out) = 1
    /\ Cardinality({i \in 1..Len(stdout) : stdout[i].line = lineNo}) = 1

\* ------------------------------------------------------------------------
\* C24
\* ------------------------------------------------------------------------

\* the invocations made or in progress for cur
InvocationCount ==
    Len(calls) + (IF pc \in {"invoke", "running"} THEN 1 ELSE 0)

\* C24: external commands are invoked only for a tools/call that names a
\* registered tool and passes its argument checks; every tool makes at most
\* one invocation per call, git_commit at most two.
C24_InvocationsOnlyForValidCalls ==
    /\ ~(/\ RegisteredCall
         /\ cur.arguments = "mapping"
         /\ PassesChecks(cur.name, cur.args))
         => InvocationCount = 0
    /\ InvocationCount <= (IF cur.name = "git_commit" THEN 2 ELSE 1)
    /\ \A i \in 1..Len(calls) : calls[i].launched => os_path_exists(calls[i].cwd)

\* git_branch with an unknown action was answered without an invocation
C24_Witness ==
    /\ Handled
    /\ RegisteredCall
    /\ cur.name = "git_branch"
    /\ cur.args.repo_path = "/repo"
    /\ cur.args.action = "rename"
    /\ calls = <<>>
    /\ Len(out) = 1

====
